---- MODULE Spec2Model ----
(***************************************************************************)
(* BuildLangTask (gulp/task-build-lang.js): merges the per-component       *)
(* language files of one language into a single key-sorted JSON file.      *)
(*                                                                         *)
(* JavaScript strings are modelled as sequences of one-character strings,  *)
(* so that lastIndexOf, substr, split, join and the default sort order     *)
(* are computed on characters as the code computes them.  JavaScript       *)
(* objects are modelled as sequences of [key, value] entries in            *)
(* own-property order (insertion order: no key of the model is an array    *)
(* index, data keys end in ".json" and merged keys start with a letter).   *)
(***************************************************************************)
EXTENDS Integers, Sequences, FiniteSets, TLC

VARIABLES
    pc,         \* position of run(): "init", "stream" (through callbacks), "done"
    language,   \* run(language, ...)
    langPaths,  \* run(..., langPaths, ...)
    paths,      \* const paths = langPaths.map(...)
    tree,       \* the vinyl files gulp.src can deliver for the globs (environment)
    limit,      \* how many files the source stream delivers at most (environment)
    data,       \* const data = {} : relative path -> parsed fragment
    firstFile,  \* let firstFile = null
    log,        \* console.log lines, each a sequence of the concatenated parts
    emitted,    \* files emitted to gulp.dest by the end callback
    history     \* files delivered by gulp.src so far, in order (ghost)

vars == <<pc, language, langPaths, paths, tree, limit, data, firstFile, log,
          emitted, history>>

----------------------------------------------------------------------------
(* Bounds of the model.                                                    *)

MaxFiles == 3        \* files delivered in one run of Spec
MaxPrefixFiles == 2  \* files delivered in one run of SpecPrefix
MaxDirs == 2         \* base directories given to run() in SpecRun

----------------------------------------------------------------------------
(* Strings.                                                                *)

\* UTF-16 code units of the characters the model uses.
CharCode ==
    ("-" :> 45) @@ ("." :> 46) @@ ("/" :> 47) @@ (":" :> 58) @@ ("\\" :> 92) @@
    ("_" :> 95) @@ ("a" :> 97) @@ ("b" :> 98) @@ ("c" :> 99) @@ ("d" :> 100) @@
    ("e" :> 101) @@ ("f" :> 102) @@ ("g" :> 103) @@ ("h" :> 104) @@
    ("i" :> 105) @@ ("j" :> 106) @@ ("k" :> 107) @@ ("l" :> 108) @@
    ("m" :> 109) @@ ("n" :> 110) @@ ("o" :> 111) @@ ("p" :> 112) @@
    ("q" :> 113) @@ ("r" :> 114) @@ ("s" :> 115) @@ ("t" :> 116) @@
    ("u" :> 117) @@ ("v" :> 118) @@ ("w" :> 119) @@ ("x" :> 120) @@
    ("y" :> 121) @@ ("z" :> 122)

\* The value of a missing array element or unassigned variable.
Undefined == <<"undefined">>

\* String conversion in a concatenation: 'core.' + undefined is 'core.undefined'.
ToStr(x) ==
    IF x = Undefined THEN <<"u", "n", "d", "e", "f", "i", "n", "e", "d">> ELSE x

\* String.prototype.slice(-1): the last character, or the empty string.
SliceLast(s) == IF s = <<>> THEN <<>> ELSE <<s[Len(s)]>>

\* String.prototype.lastIndexOf(pat): 0-based index of the last match, or -1.
LastIndexOf(s, pat) ==
    LET hits == {i \in 0..(Len(s) - Len(pat)) :
                    SubSeq(s, i + 1, i + Len(pat)) = pat}
    IN  IF hits = {} THEN -1
        ELSE CHOOSE i \in hits : \A j \in hits : j <= i

\* String.prototype.substr(start) for start >= 0.
Substr(s, start) ==
    IF start >= Len(s) THEN <<>> ELSE SubSeq(s, start + 1, Len(s))

\* String.prototype.split(/[\/\\]/).
RECURSIVE SplitAcc(_, _, _, _)
SplitAcc(s, i, cur, acc) ==
    IF i > Len(s) THEN Append(acc, cur)
    ELSE IF s[i] \in {"/", "\\"}
         THEN SplitAcc(s, i + 1, <<>>, Append(acc, cur))
         ELSE SplitAcc(s, i + 1, Append(cur, s[i]), acc)

Split(s) == SplitAcc(s, 1, <<>>, <<>>)

\* Array.prototype.pop() and shift(), as the array they leave.
Pop(a) == IF a = <<>> THEN a ELSE SubSeq(a, 1, Len(a) - 1)

Shift(a) == IF a = <<>> THEN a ELSE Tail(a)

\* a[i] with a 0-based index.
At(a, i) == IF i + 1 <= Len(a) THEN a[i + 1] ELSE Undefined

\* Array.prototype.join(sep).
RECURSIVE Join(_, _)
Join(a, sep) ==
    IF a = <<>> THEN <<>>
    ELSE IF Len(a) = 1 THEN a[1]
         ELSE a[1] \o sep \o Join(Tail(a), sep)

\* Length of the longest common prefix of two strings.
RECURSIVE CommonLen(_, _, _)
CommonLen(a, b, n) ==
    IF n < Len(a) /\ n < Len(b) /\ a[n + 1] = b[n + 1]
    THEN CommonLen(a, b, n + 1)
    ELSE n

\* a < b for strings: comparison by code units, a proper prefix being smaller.
StrLess(a, b) ==
    LET n == CommonLen(a, b, 0)
    IN  IF n = Len(a) THEN n < Len(b)
        ELSE IF n = Len(b) THEN FALSE
             ELSE CharCode[a[n + 1]] < CharCode[b[n + 1]]

----------------------------------------------------------------------------
(* Objects.                                                                *)

ObjKeys(o) == [i \in 1..Len(o) |-> o[i].key]

ObjKeySet(o) == {o[i].key : i \in 1..Len(o)}

ObjHas(o, k) == \E i \in 1..Len(o) : o[i].key = k

ObjGet(o, k) == o[CHOOSE i \in 1..Len(o) : o[i].key = k].value

\* o[k] = v: an existing property keeps its position, a new one goes last.
ObjSet(o, k, v) ==
    IF ObjHas(o, k)
    THEN [i \in 1..Len(o) |-> IF o[i].key = k THEN [key |-> k, value |-> v]
                                              ELSE o[i]]
    ELSE Append(o, [key |-> k, value |-> v])

----------------------------------------------------------------------------
(* String literals of the source.                                          *)

Slash == <<"/">>

SrcMarker == <<"/", "s", "r", "c", "/">>

WinSrcMarker == <<"\\", "s", "r", "c", "\\">>

DotJson == <<".", "j", "s", "o", "n">>

S_lang == <<"l", "a", "n", "g">>

S_core == <<"c", "o", "r", "e">>

S_addon == <<"a", "d", "d", "o", "n">>

S_assets == <<"a", "s", "s", "e", "t", "s">>

CoreDot == <<"c", "o", "r", "e", ".">>

AddonDot == <<"a", "d", "d", "o", "n", ".">>

AssetsDot == <<"a", "s", "s", "e", "t", "s", ".">>

Underscore == <<"_">>

Dot == <<".">>

----------------------------------------------------------------------------
(* External collaborators: vinyl files, JSON, path.                        *)

\* A vinyl file: kind is "null" (no contents), "stream", "empty" (a buffer of
\* length 0) or "text"; the contents of a text file either are JSON text,
\* standing for the object `value`, or are not, and JSON.parse fails on them
\* with `message`.
IsNull(file) == file.kind = "null"

IsStream(file) == file.kind = "stream"

\* gulp-clip-empty-files drops the files whose contents are empty.
IsClipped(file) == file.kind = "empty"

\* JSON.parse(file.contents.toString()).
JSONParse(contents) ==
    IF contents.valid
    THEN [threw |-> FALSE, value |-> contents.value,
          err |-> [name |-> "", message |-> ""]]
    ELSE [threw |-> TRUE, value |-> <<>>,
          err |-> [name |-> "SyntaxError", message |-> contents.message]]

\* A console line is the sequence of the parts concatenated into it: a
\* literal of the source, or an error converted to a string (name: message).
Literal(text) == [kind |-> "literal", text |-> text]

ErrorString(err) == [kind |-> "error", text |-> <<err.name, ": ", err.message>>]

\* JSON.stringify(o, null, indent): the members in own-property order.
JSONStringify(o, indent) ==
    [indent |-> indent,
     members |-> [i \in 1..Len(o) |-> <<o[i].key, o[i].value>>]]

\* path.join(a, b): joined with a separator, repeated separators collapsed.
RECURSIVE Collapse(_)
Collapse(s) ==
    IF Len(s) < 2 THEN s
    ELSE IF s[1] = "/" /\ s[2] = "/" THEN Collapse(Tail(s))
         ELSE <<s[1]>> \o Collapse(Tail(s))

PathJoin(a, b) == Collapse(a \o Slash \o b)

----------------------------------------------------------------------------
(* BuildLangTask.                                                          *)

\* addProperties(target, source, prefix), as the target it leaves.
RECURSIVE AddProperties(_, _, _)
AddProperties(target, source, prefix) ==
    IF source = <<>> THEN target
    ELSE AddProperties(ObjSet(target, prefix \o source[1].key, source[1].value),
                       Tail(source), prefix)

\* Mutant: a separator is appended to every directory.
MapPathAlways(path, lang) == path \o Slash \o lang \o DotJson

\* The callback of langPaths.map in run().
MapPath(path, lang) ==
    LET path1 == IF SliceLast(path) # Slash THEN path \o Slash ELSE path
    IN  path1 \o lang \o DotJson

\* The relative path treatFile stores the fragment under.
RelativePath(filePath) ==
    LET srcPos1 == LastIndexOf(filePath, SrcMarker)
        srcPos  == IF srcPos1 = -1 THEN LastIndexOf(filePath, WinSrcMarker)
                                   ELSE srcPos1
    IN  Substr(filePath, srcPos + 5)

\* treatFile(file, data), as the data and the console log it leaves.
TreatFile(file, d, lg) ==
    IF IsNull(file) \/ IsStream(file) THEN [data |-> d, log |-> lg]
    ELSE LET path   == RelativePath(file.path)
             parsed == JSONParse(file.contents)
         IN  IF parsed.threw
             THEN [data |-> d,
                   log  |-> Append(lg, <<Literal("Error parsing JSON: "),
                                         ErrorString(parsed.err)>>)]
             ELSE [data |-> ObjSet(d, path, parsed.value), log |-> lg]

\* Mutant: the check for core/lang is missing.
CoreCaseNoLang(pathSplit) == CoreDot \o ToStr(At(pathSplit, 1))

\* case 'core' of the switch in treatMergedData.
CoreCase(pathSplit) ==
    IF At(pathSplit, 1) = S_lang THEN S_core
    ELSE CoreDot \o ToStr(At(pathSplit, 1))

\* case 'addon' of the switch in treatMergedData.
AddonCase(pathSplit) == AddonDot \o Join(Shift(Pop(pathSplit)), Underscore)

\* The switch of treatMergedData on pathSplit[0], pathSplit being the split
\* path without its last element; Undefined when no case matches.
PrefixOf(pathSplit) ==
    LET root == At(pathSplit, 0)
    IN  IF root = S_lang THEN S_core
        ELSE IF root = S_core THEN CoreCase(pathSplit)
        ELSE IF root = S_addon THEN AddonCase(pathSplit)
        ELSE IF root = S_assets THEN AssetsDot \o ToStr(At(pathSplit, 1))
        ELSE Undefined

\* if (prefix)
Truthy(prefix) == prefix # Undefined /\ prefix # <<>>

\* The for-in loop of treatMergedData over data, as the object merged.
RECURSIVE MergeLoop(_, _)
MergeLoop(d, merged) ==
    IF d = <<>> THEN merged
    ELSE LET pathSplit == Pop(Split(d[1].key))
             prefix    == PrefixOf(pathSplit)
         IN  MergeLoop(Tail(d),
                       IF Truthy(prefix)
                       THEN AddProperties(merged, d[1].value, prefix \o Dot)
                       ELSE merged)

Merged(d) == MergeLoop(d, <<>>)

\* Mutant: the keys are left in insertion order.
SortKeysNone(keys) == keys

\* Array.prototype.sort() without a comparator: ascending by code units.
RECURSIVE InsertKey(_, _)
InsertKey(sorted, k) ==
    IF sorted = <<>> THEN <<k>>
    ELSE IF StrLess(k, sorted[1]) THEN <<k>> \o sorted
         ELSE <<sorted[1]>> \o InsertKey(Tail(sorted), k)

RECURSIVE SortFrom(_, _)
SortFrom(keys, sorted) ==
    IF keys = <<>> THEN sorted
    ELSE SortFrom(Tail(keys), InsertKey(sorted, keys[1]))

SortKeys(keys) == SortFrom(keys, <<>>)

\* Object.keys(merged).sort().forEach(...), as the object mergedOrdered.
RECURSIVE OrderLoop(_, _, _)
OrderLoop(keys, merged, mergedOrdered) ==
    IF keys = <<>> THEN mergedOrdered
    ELSE OrderLoop(Tail(keys), merged,
                   ObjSet(mergedOrdered, keys[1], ObjGet(merged, keys[1])))

MergedOrdered(merged) == OrderLoop(SortKeys(ObjKeys(merged)), merged, <<>>)

\* treatMergedData(data): the buffer of the serialized, ordered object.
TreatMergedData(d) == JSONStringify(MergedOrdered(Merged(d)), 4)

----------------------------------------------------------------------------
(* run(language, langPaths, done) as a state machine.                      *)

Null == [kind |-> "none"]

\* const paths = langPaths.map(...)
RunMap ==
    /\ pc = "init"
    /\ paths' = [i \in 1..Len(langPaths) |-> MapPath(langPaths[i], language)]
    /\ pc' = "stream"
    /\ UNCHANGED <<language, langPaths, tree, limit, data, firstFile, log,
                   emitted, history>>

\* .pipe(clipEmptyFiles()): an empty file never reaches the through callback.
ClipEmpty(file) ==
    /\ pc = "stream"
    /\ Len(history) < limit
    /\ IsClipped(file)
    /\ history' = Append(history, file)
    /\ UNCHANGED <<pc, language, langPaths, paths, tree, limit, data,
                   firstFile, log, emitted>>

\* Mutant: the first file is remembered only if treatFile does not ignore it.
FirstFileIfTreated(first, file) ==
    IF first = Null /\ ~IsNull(file) /\ ~IsStream(file) THEN file ELSE first

\* if (!firstFile) { firstFile = file; }
FirstFileAfter(first, file) == IF first = Null THEN file ELSE first

\* The write callback of through: remembers the first file, treats the file.
Through(file) ==
    /\ pc = "stream"
    /\ Len(history) < limit
    /\ ~IsClipped(file)
    /\ firstFile' = FirstFileAfter(firstFile, file)
    /\ LET r == TreatFile(file, data, log)
       IN  /\ data' = r.data
           /\ log' = r.log
    /\ history' = Append(history, file)
    /\ UNCHANGED <<pc, language, langPaths, paths, tree, limit, emitted>>

\* The end callback of through: emits the joined file if any file came.
End ==
    /\ pc = "stream"
    /\ emitted' =
          IF firstFile # Null
          THEN Append(emitted,
                      [cwd      |-> firstFile.cwd,
                       base     |-> firstFile.base,
                       path     |-> PathJoin(firstFile.base, language \o DotJson),
                       contents |-> TreatMergedData(data)])
          ELSE emitted
    /\ pc' = "done"
    /\ UNCHANGED <<language, langPaths, paths, tree, limit, data, firstFile,
                   log, history>>

Next ==
    \/ RunMap
    \/ \E file \in tree : ClipEmpty(file)
    \/ \E file \in tree : Through(file)
    \/ End

----------------------------------------------------------------------------
(* Inputs: languages, directories, keys and the files of the source trees.  *)

EN == <<"e", "n">>

ES == <<"e", "s">>

W_a == <<"a">>

W_b == <<"b">>

W_w == <<"w">>

W_src == <<"s", "r", "c">>

W_other == <<"o", "t", "h", "e", "r">>

W_settings == <<"s", "e", "t", "t", "i", "n", "g", "s">>

W_countries == <<"c", "o", "u", "n", "t", "r", "i", "e", "s">>

W_mod_assign == <<"m", "o", "d", "_", "a", "s", "s", "i", "g", "n">>

W_feedback_comments == <<"f", "e", "e", "d", "b", "a", "c", "k", "_", "c", "o", "m", "m", "e", "n", "t", "s">>

W_a_b == <<"a", "_", "b">>

W_drive == <<"c", ":">>

K_foo == <<"f", "o", "o">>

K_bar == <<"b", "a", "r">>

K_baz == <<"b", "a", "z">>

K_title == <<"t", "i", "t", "l", "e">>

K_name == <<"n", "a", "m", "e">>

K_misc == <<"m", "i", "s", "c">>

K_text == <<"t", "e", "x", "t">>

K_note == <<"n", "o", "t", "e">>

K_hint == <<"h", "i", "n", "t">>

K_drive == <<"d", "r", "i", "v", "e">>

K_qux == <<"q", "u", "x">>

K_top == <<"t", "o", "p">>

K_home == <<"h", "o", "m", "e">>

FileName(lang) == lang \o DotJson

\* "/seg/seg/.../" and "c:\seg\seg\...\"
UnixDir(segs) == Slash \o Join(segs, Slash) \o Slash

WinDir(segs) == W_drive \o <<"\\">> \o Join(segs, <<"\\">>) \o <<"\\">>

\* "seg/seg/.../", a directory relative to the working directory
RelDir(segs) == Join(segs, Slash) \o Slash

Cwd == <<"/", "w">>

Entry(k, v) == [key |-> k, value |-> v]

JSONText(obj) == [valid |-> TRUE, value |-> obj, message |-> ""]

BadText(msg) == [valid |-> FALSE, value |-> <<>>, message |-> msg]

NoText == [valid |-> FALSE, value |-> <<>>, message |-> ""]

\* The vinyl file of <dir><lang>.json.
FileIn(dir, lang, kind, contents) ==
    [cwd |-> Cwd, base |-> dir, path |-> dir \o FileName(lang),
     kind |-> kind, contents |-> contents]

\* Source trees whose fragments share keys: two base directories with the
\* same path after src/, prefixes met by several paths, a malformed file.
MergeFiles(lang) ==
    { FileIn(UnixDir(<<W_a, W_src, S_lang>>), lang, "text",
             JSONText(<<Entry(K_foo, "a.foo")>>)),
      FileIn(UnixDir(<<W_b, W_src, S_lang>>), lang, "text",
             JSONText(<<Entry(K_foo, "b.foo"), Entry(K_bar, "b.bar")>>)),
      FileIn(UnixDir(<<W_a, W_src, S_core, S_lang>>), lang, "text",
             JSONText(<<Entry(K_foo, "c.foo")>>)),
      FileIn(UnixDir(<<W_a, W_src, S_lang>>), lang, "text",
             BadText("Unexpected token")),
      FileIn(UnixDir(<<W_a, W_src, S_addon, W_a_b, S_lang>>), lang, "text",
             JSONText(<<Entry(K_foo, "d.foo")>>)),
      FileIn(UnixDir(<<W_a, W_src, S_addon, W_a, W_b, S_lang>>), lang, "text",
             JSONText(<<Entry(K_foo, "e.foo")>>)),
      FileIn(UnixDir(<<W_a, W_src, W_other, S_lang>>), lang, "text",
             JSONText(<<Entry(K_foo, "o.foo")>>)),
      FileIn(UnixDir(<<W_a, W_src, S_assets, W_countries>>), lang, "text",
             JSONText(<<Entry(K_name, "s.name"), Entry(K_bar, "s.bar")>>)),
      FileIn(UnixDir(<<W_a, W_src, S_core, S_lang>>), lang, "empty", NoText),
      FileIn(UnixDir(<<W_a, W_src, S_assets>>), lang, "null", NoText) }

\* Source trees with one file per layout, every file with a key of its own.
PrefixFiles(lang) ==
    { FileIn(UnixDir(<<W_a, W_src, S_lang>>), lang, "text",
             JSONText(<<Entry(K_title, "p1")>>)),
      FileIn(UnixDir(<<W_a, W_src, S_core, S_lang>>), lang, "text",
             JSONText(<<Entry(K_qux, "p2")>>)),
      FileIn(UnixDir(<<W_a, W_src, S_core, W_settings, S_lang>>), lang, "text",
             JSONText(<<Entry(K_bar, "p3")>>)),
      FileIn(UnixDir(<<W_a, W_src, S_assets, W_countries>>), lang, "text",
             JSONText(<<Entry(K_name, "p4")>>)),
      FileIn(UnixDir(<<W_a, W_src, W_other, S_lang>>), lang, "text",
             JSONText(<<Entry(K_misc, "p5")>>)),
      FileIn(UnixDir(<<W_a, W_src, S_addon, W_mod_assign, S_lang>>), lang,
             "text", JSONText(<<Entry(K_baz, "p6")>>)),
      FileIn(UnixDir(<<W_a, W_src, S_addon, W_mod_assign, W_feedback_comments,
                       S_lang>>), lang,
             "text", JSONText(<<Entry(K_text, "p7")>>)),
      FileIn(UnixDir(<<W_a, W_src, S_addon, W_mod_assign>>), lang, "text",
             JSONText(<<Entry(K_note, "p8")>>)),
      FileIn(RelDir(<<S_lang>>), lang, "text",
             JSONText(<<Entry(K_foo, "p9")>>)),
      FileIn(WinDir(<<W_w, W_src, S_lang>>), lang, "text",
             JSONText(<<Entry(K_drive, "p10")>>)),
      FileIn(UnixDir(<<W_a, W_src, S_core>>), lang, "text",
             JSONText(<<Entry(K_hint, "p11")>>)),
      FileIn(UnixDir(<<W_a, W_src>>), lang, "text",
             JSONText(<<Entry(K_top, "p12")>>)),
      FileIn(UnixDir(<<W_w, S_lang>>), lang, "text",
             JSONText(<<Entry(K_home, "p13")>>)),
      FileIn(UnixDir(<<W_a, W_src, S_lang>>), lang, "empty", NoText) }

\* Source trees of a run that merges nothing, or one fragment.
RunFiles(lang) ==
    { FileIn(UnixDir(<<W_a, W_src, S_lang>>), lang, "text",
             BadText("Unexpected end of JSON input")),
      FileIn(UnixDir(<<W_a, W_src, S_core, S_lang>>), lang, "text",
             JSONText(<<>>)),
      FileIn(UnixDir(<<W_a, W_src, W_other, S_lang>>), lang, "text",
             JSONText(<<Entry(K_foo, "o.foo")>>)),
      FileIn(UnixDir(<<W_a, W_src, S_lang>>), lang, "text",
             JSONText(<<Entry(K_foo, "a.foo")>>)),
      FileIn(UnixDir(<<W_a, W_src, S_assets>>), lang, "empty", NoText),
      FileIn(UnixDir(<<W_a, W_src, S_assets>>), lang, "stream", NoText) }

\* Base directories: without a final separator, with one, with two, and a
\* Windows directory ending in a backslash.
BaseDirs ==
    { Slash \o Join(<<W_a, W_src, S_lang>>, Slash),
      UnixDir(<<W_a, W_src, S_lang>>),
      UnixDir(<<W_a, W_src, S_lang>>) \o Slash,
      WinDir(<<W_w>>) }

\* The sequences of length at most n over S.
SeqsUpTo(S, n) == UNION {[1..k -> S] : k \in 0..n}

InitWith(langs, dirLists, maxFiles) ==
    /\ pc = "init"
    /\ language \in langs
    /\ langPaths \in dirLists
    /\ paths = <<>>
    /\ limit = maxFiles
    /\ data = <<>>
    /\ firstFile = Null
    /\ log = <<>>
    /\ emitted = <<>>
    /\ history = <<>>

\* One language over source trees with colliding fragments.
Init ==
    /\ InitWith({EN}, {<<UnixDir(<<W_a, W_src>>), UnixDir(<<W_b, W_src>>)>>},
                MaxFiles)
    /\ tree = MergeFiles(language)

Spec == Init /\ [][Next]_vars

\* One language over source trees with one file per layout.
InitPrefix ==
    /\ InitWith({EN}, {<<UnixDir(<<W_a, W_src>>)>>}, MaxPrefixFiles)
    /\ tree = PrefixFiles(language)

SpecPrefix == InitPrefix /\ [][Next]_vars

\* Any language and list of base directories; a file at most per directory.
InitRun ==
    /\ pc = "init"
    /\ language \in {EN, ES}
    /\ langPaths \in SeqsUpTo(BaseDirs, MaxDirs)
    /\ paths = <<>>
    /\ limit = Len(langPaths)
    /\ data = <<>>
    /\ firstFile = Null
    /\ log = <<>>
    /\ emitted = <<>>
    /\ history = <<>>
    /\ tree = RunFiles(language)

SpecRun == InitRun /\ [][Next]_vars

----------------------------------------------------------------------------
(* Vocabulary of the properties.                                           *)

\* The run has finalized: the end callback emitted the joined file.
Finalized == pc = "done" /\ emitted # <<>>

\* The members of the emitted JSON document, in order.
OutMembers == emitted[1].contents.members

OutKeySeq == [i \in 1..Len(OutMembers) |-> OutMembers[i][1]]

OutKeys == {OutMembers[i][1] : i \in 1..Len(OutMembers)}

OutEntries == {OutMembers[i] : i \in 1..Len(OutMembers)}

OutValue(k) == (CHOOSE m \in OutEntries : m[1] = k)[2]

\* The positions of the history whose file was parsed successfully.
Parsed(i) == history[i].kind = "text" /\ history[i].contents.valid

\* The positions of the history whose file is not valid JSON.
Malformed(i) == history[i].kind = "text" /\ ~history[i].contents.valid

FragmentKeys(file) == ObjKeySet(file.contents.value)

\* The prefix the code derives from the path of a file by itself.
PathPrefix(file) == PrefixOf(Pop(Split(RelativePath(file.path))))

\* The fully-qualified entries a parsed fragment produces under its prefix.
Produced(file) ==
    IF Truthy(PathPrefix(file))
    THEN {<<PathPrefix(file) \o Dot \o e.key, e.value>> :
             e \in {file.contents.value[j] :
                       j \in 1..Len(file.contents.value)}}
    ELSE {}

ProducedKeys(file) == {m[1] : m \in Produced(file)}

\* a < b by code units, stated on the first position where a and b differ.
LexLess(a, b) ==
    \E i \in 1..(Len(b)) :
        /\ \A j \in 1..(i - 1) : j <= Len(a) /\ a[j] = b[j]
        /\ \/ i = Len(a) + 1
           \/ i <= Len(a) /\ CharCode[a[i]] < CharCode[b[i]]

----------------------------------------------------------------------------
(* C1: after any ingests followed by finalize, the key set of the output   *)
(* is exactly the union, over the fragments that parsed and whose path     *)
(* yields a prefix, of their prefixed keys; no key of an earlier fragment  *)
(* is missing, also when two files have the same path after src/.          *)
C1_KeySetIsUnion ==
    Finalized =>
        OutKeys = UNION {ProducedKeys(history[i]) :
                            i \in {j \in 1..Len(history) : Parsed(j)}}

(* C2: a fully-qualified key produced by more than one parsed fragment     *)
(* has, in the finalized output, the value of the fragment ingested last   *)
(* among those producing it.                                               *)
C2_LastIngestedWins ==
    Finalized =>
        \A k \in OutKeys :
            LET producers == {i \in 1..Len(history) :
                                 Parsed(i) /\ k \in ProducedKeys(history[i])}
                last == CHOOSE i \in producers : \A j \in producers : j <= i
            IN  Cardinality(producers) > 1 =>
                    <<k, OutValue(k)>> \in Produced(history[last])

(* C5: a malformed fragment is excluded and non-fatal: it adds a console   *)
(* line only, and every fragment ingested before or after it still         *)
(* contributes its prefixed keys to the finalized output.                  *)
C5_MalformedIsContained ==
    (Finalized /\ \E i \in 1..Len(history) : Malformed(i)) =>
        \A i \in 1..Len(history) :
            Parsed(i) => ProducedKeys(history[i]) \subseteq OutKeys

(* C5, the part about the malformed fragment alone: its delivery adds one  *)
(* console line and leaves the accumulated data, the position of the run   *)
(* and the emitted files as they were.                                     *)
C5_MalformedChangesLogOnly ==
    [][(/\ Len(history') = Len(history) + 1
        /\ history'[Len(history')].kind = "text"
        /\ ~history'[Len(history')].contents.valid)
          => /\ data' = data
             /\ pc' = pc
             /\ emitted' = emitted
             /\ Len(log') = Len(log) + 1]_vars

(* C6: the keys of the finalized output are in strictly ascending order by *)
(* code units, whatever the order of ingestion, and the output holds the   *)
(* same entries as the unsorted merged table.                              *)
C6_KeysAscending ==
    Finalized =>
        /\ \A i \in 1..(Len(OutKeySeq) - 1) :
               LexLess(OutKeySeq[i], OutKeySeq[i + 1])
        /\ Len(OutMembers) = Len(Merged(data))
        /\ OutEntries = {<<Merged(data)[i].key, Merged(data)[i].value>> :
                            i \in 1..Len(Merged(data))}

\* Witness of C6: the merged table was not in order, the output has its
\* entries sorted.
C6_Witness ==
    /\ Finalized
    /\ Len(OutMembers) >= 2
    /\ ObjKeys(Merged(data)) # OutKeySeq

(* C10: every JSON parse failure reports exactly one diagnostic, which     *)
(* names the path of the offending fragment and the parse message; no      *)
(* other file is reported.                                                 *)
C10_DiagnosticNamesPath ==
    LET bad == SelectSeq(history,
                         LAMBDA f : f.kind = "text" /\ ~f.contents.valid)
    IN  /\ Len(log) = Len(bad)
        /\ \A i \in 1..Len(log) :
               /\ \E j \in 1..Len(log[i]) :
                      /\ log[i][j].kind = "error"
                      /\ log[i][j].text[3] = bad[i].contents.message
               /\ \E j \in 1..Len(log[i]) :
                      /\ log[i][j].kind = "path"
                      /\ log[i][j].text = bad[i].path

----------------------------------------------------------------------------
(* Prefix derivation as the specification states it, on path segments.     *)

W_srcSegment == <<"s", "r", "c">>

\* The positions of the segments named src that have a segment on each side.
MarkerPositions(segs) ==
    {i \in 2..(Len(segs) - 1) : segs[i] = W_srcSegment}

HasMarker(file) == MarkerPositions(Split(file.path)) # {}

\* The directories of the relative path: the segments after the last src
\* segment (all of them when there is none), the file name dropped.
RelativeDirs(file) ==
    LET segs == Split(file.path)
        at   == MarkerPositions(segs)
        last == IF at = {} THEN 0
                ELSE CHOOSE i \in at : \A j \in at : j <= i
    IN  SubSeq(segs, last + 1, Len(segs) - 1)

\* The rule for the roots lang, core and assets; Undefined for another root.
StatedPrefix(dirs) ==
    IF dirs = <<>> THEN Undefined
    ELSE IF dirs[1] = S_lang THEN S_core
    ELSE IF dirs[1] = S_core /\ Len(dirs) >= 2
         THEN IF dirs[2] = S_lang THEN S_core ELSE S_core \o Dot \o dirs[2]
    ELSE IF dirs[1] = S_assets /\ Len(dirs) >= 2
         THEN S_assets \o Dot \o dirs[2]
    ELSE Undefined

\* The rule for the root addon: the final lang dropped if it is there, the
\* first segment dropped, the rest joined with "_".
RECURSIVE JoinWithUnderscore(_)
JoinWithUnderscore(segs) ==
    IF segs = <<>> THEN <<>>
    ELSE IF Len(segs) = 1 THEN segs[1]
         ELSE segs[1] \o <<"_">> \o JoinWithUnderscore(Tail(segs))

StatedAddonPrefix(dirs) ==
    LET named == IF dirs[Len(dirs)] = S_lang
                 THEN SubSeq(dirs, 1, Len(dirs) - 1) ELSE dirs
    IN  S_addon \o Dot \o JoinWithUnderscore(Tail(named))

\* Every file of SpecPrefix has values of its own: the keys of the output
\* that carry a value of the file are the keys the file contributed.
Contributed(file) ==
    {m[1] : m \in {e \in OutEntries :
                      \E j \in 1..Len(file.contents.value) :
                          file.contents.value[j].value = e[2]}}

Qualified(prefix, file) == {prefix \o Dot \o k : k \in FragmentKeys(file)}

StartsWith(s, head) == Len(s) >= Len(head) /\ SubSeq(s, 1, Len(head)) = head

C3_CoreSettingsBar ==
    <<"c", "o", "r", "e", ".", "s", "e", "t", "t", "i", "n", "g", "s", ".", "b", "a", "r">>

C3_AssetsCountriesName ==
    <<"a", "s", "s", "e", "t", "s", ".", "c", "o", "u", "n", "t", "r", "i", "e", "s", ".", "n", "a", "m", "e">>

\* The roots C3 speaks of, with the second segment its rule reads present.
C3_Covers(dirs) ==
    \/ dirs = <<>>
    \/ dirs[1] \notin {S_core, S_assets, S_addon}
    \/ dirs[1] \in {S_core, S_assets} /\ Len(dirs) >= 2

(* C3: for a fragment whose relative path (after src, file name dropped)   *)
(* has first segment lang the prefix is core; for core it is core when the *)
(* second segment is lang and else core.<second segment>; for assets it is *)
(* assets.<second segment>; for another root the fragment contributes no   *)
(* key.  core/settings/lang gives core.settings, assets/countries gives    *)
(* assets.countries, and every output key starts with core., addon. or     *)
(* assets.                                                                 *)
C3_PrefixDispatch ==
    Finalized =>
        /\ \A i \in 1..Len(history) :
               LET file == history[i]
                   dirs == RelativeDirs(file)
               IN  (Parsed(i) /\ HasMarker(file) /\ C3_Covers(dirs)) =>
                       Contributed(file) =
                           IF StatedPrefix(dirs) = Undefined THEN {}
                           ELSE Qualified(StatedPrefix(dirs), file)
        /\ \A i \in 1..Len(history) :
               (Parsed(i) /\ history[i].contents.value
                                = <<Entry(K_bar, "p3")>>) =>
                   C3_CoreSettingsBar \in OutKeys
        /\ \A i \in 1..Len(history) :
               (Parsed(i) /\ history[i].contents.value
                                = <<Entry(K_name, "p4")>>) =>
                   C3_AssetsCountriesName \in OutKeys
        /\ \A k \in OutKeys :
               \/ StartsWith(k, S_core \o Dot)
               \/ StartsWith(k, S_addon \o Dot)
               \/ StartsWith(k, S_assets \o Dot)

\* Witness of C3: core/lang, next to a root that is not recognized, merged.
C3_Witness ==
    /\ Finalized
    /\ \E i, j \in 1..Len(history) :
           /\ Parsed(i) /\ HasMarker(history[i])
           /\ RelativeDirs(history[i]) = <<S_core, S_lang>>
           /\ Parsed(j) /\ HasMarker(history[j])
           /\ RelativeDirs(history[j]) = <<W_other, S_lang>>
    /\ Len(OutMembers) = 1

(* C4: for a fragment whose relative path has first segment addon, the     *)
(* prefix is addon.<joined>, joined being the directories without the      *)
(* first one and without the last one only if that is lang, joined by "_". *)
C4_AddonPrefix ==
    Finalized =>
        \A i \in 1..Len(history) :
            LET file == history[i]
                dirs == RelativeDirs(file)
            IN  (Parsed(i) /\ HasMarker(file) /\ dirs # <<>>
                   /\ dirs[1] = S_addon) =>
                    Contributed(file) = Qualified(StatedAddonPrefix(dirs), file)

(* C9: a path without a src marker is the relative path as a whole: the    *)
(* dispatch applies to its first segment, lang/en.json with key foo gives  *)
(* core.foo.                                                               *)
C9_NoMarkerWholePath ==
    Finalized =>
        \A i \in 1..Len(history) :
            LET file == history[i]
                dirs == RelativeDirs(file)
            IN  (Parsed(i) /\ ~HasMarker(file)) =>
                    Contributed(file) =
                        IF dirs # <<>> /\ dirs[1] = S_addon
                        THEN Qualified(StatedAddonPrefix(dirs), file)
                        ELSE IF StatedPrefix(dirs) = Undefined THEN {}
                        ELSE Qualified(StatedPrefix(dirs), file)

----------------------------------------------------------------------------
(* The run and its candidate paths.                                        *)

EndsWith(s, tail) ==
    Len(s) >= Len(tail) /\ SubSeq(s, Len(s) - Len(tail) + 1, Len(s)) = tail

\* s without its final separators.
RECURSIVE StripSeparators(_)
StripSeparators(s) ==
    IF s # <<>> /\ s[Len(s)] = "/"
    THEN StripSeparators(SubSeq(s, 1, Len(s) - 1))
    ELSE s

(* C7 as stated: a run emits at most one output file, and none when the    *)
(* merged table has no keys, also when candidate files exist but each is   *)
(* malformed, of an unrecognized root or an empty object.                  *)
C7_NoOutputForEmptyTable ==
    pc = "done" =>
        /\ Len(emitted) <= 1
        /\ Merged(data) = <<>> => emitted = <<>>

\* A file reached the through callback: it was delivered and not clipped.
SomeFileSeen == \E i \in 1..Len(history) : history[i].kind # "empty"

(* C7 as amended: a run emits at most one output file, after all files     *)
(* were treated, and none exactly when no file reached the merge (every    *)
(* candidate absent or empty); when a file was seen and the merged table   *)
(* has no keys, the one file emitted holds the empty object.               *)
C7_OutputIffFileSeen ==
    /\ pc # "done" => emitted = <<>>
    /\ pc = "done" =>
           /\ Len(emitted) <= 1
           /\ emitted = <<>> <=> ~SomeFileSeen
           /\ (emitted # <<>> /\ Merged(data) = <<>>) => OutMembers = <<>>

\* Witness of C7: every file of the run was malformed, of an unrecognized
\* root, an empty object or without contents, and an empty object is emitted.
C7_Witness ==
    /\ pc = "done"
    /\ Len(history) >= 2
    /\ \E i \in 1..Len(history) : Malformed(i)
    /\ \E i \in 1..Len(history) : ~Malformed(i) /\ history[i].kind # "empty"
    /\ Merged(data) = <<>>
    /\ Len(emitted) = 1
    /\ OutMembers = <<>>

(* C8 as stated: the candidate paths are the directories, in order, each   *)
(* normalized to end with exactly one separator, then <language>.json.     *)
C8_ExactlyOneSeparator ==
    pc # "init" =>
        /\ Len(paths) = Len(langPaths)
        /\ \A i \in 1..Len(paths) :
               paths[i] = StripSeparators(langPaths[i]) \o <<"/">>
                              \o language \o DotJson

(* C8 as amended: the candidate paths are the directories, in order and    *)
(* without deduplication, each followed by "/" only if its last character  *)
(* is not "/", then by <language>.json: the separators a directory ends    *)
(* with are kept as they are.                                              *)
C8_SeparatorAddedIfMissing ==
    pc # "init" =>
        /\ Len(paths) = Len(langPaths)
        /\ \A i \in 1..Len(paths) :
               LET dir  == langPaths[i]
                   name == language \o DotJson
               IN  /\ StartsWith(paths[i], dir)
                   /\ EndsWith(paths[i], <<"/">> \o name)
                   /\ Len(paths[i]) = Len(dir) + Len(name)
                                         + (IF EndsWith(dir, <<"/">>) THEN 0
                                                                      ELSE 1)

\* Witness of C8: a directory that ends in a separator, which gains none,
\* followed by one that does not, mapped in order.
C8_Witness ==
    /\ pc = "stream"
    /\ Len(paths) = 2
    /\ EndsWith(langPaths[1], <<"/">>)
    /\ ~EndsWith(langPaths[2], <<"/">>)
    /\ paths[1] = langPaths[1] \o language \o DotJson

====
